---- MODULE Spec2Model ----
(***************************************************************************)
(* Model of src/search/pws_search.py: the module load, run_search (submit, *)
(* poll loop, result fetch, payload decode) and the return to main.        *)
(*                                                                         *)
(* Durations are Python floats (IEEE-754 binary64).  A non-negative float  *)
(* is modelled exactly, as the natural number of 2^-60 second units it     *)
(* denotes, written as a sequence of bits, least significant bit first,    *)
(* without leading zeros (<<>> is 0.0).  Float addition is exact addition  *)
(* followed by rounding to Precision significant bits, ties to even.       *)
(***************************************************************************)
EXTENDS Integers, Sequences, FiniteSets, TLC

\* ------------------------------------------------------------------------
\* Bounds of the model
\* ------------------------------------------------------------------------
MaxPolls == 20
MaxStrLen == 2

\* ------------------------------------------------------------------------
\* binary64 arithmetic on bit sequences
\* ------------------------------------------------------------------------
Precision == 53

Zero == <<>>

Zeros(k) == [i \in 1..k |-> 0]

Bit(a, i) == IF i <= Len(a) THEN a[i] ELSE 0

\* a without its leading (high-order) zeros
Norm(a) ==
    LET top == CHOOSE i \in 0..Len(a) :
                 /\ i = 0 \/ a[i] = 1
                 /\ \A j \in (i + 1)..Len(a) : a[j] = 0
    IN  SubSeq(a, 1, top)

\* the carry into bit i of a + b: some lower bit generates a carry and
\* every bit between propagates it
Carry(a, b, i) ==
    \E j \in 1..(i - 1) :
        /\ Bit(a, j) + Bit(b, j) = 2
        /\ \A k \in (j + 1)..(i - 1) : Bit(a, k) + Bit(b, k) >= 1

\* a + b, exactly
ExactAdd(a, b) ==
    LET n   == (IF Len(a) > Len(b) THEN Len(a) ELSE Len(b)) + 1
        sum == [i \in 1..n |->
                  (Bit(a, i) + Bit(b, i) + (IF Carry(a, b, i) THEN 1 ELSE 0)) % 2]
    IN  IF sum[n] = 1 THEN SubSeq(sum, 1, n) ELSE SubSeq(sum, 1, n - 1)

Less(a, b) ==
    \/ Len(a) < Len(b)
    \/ /\ Len(a) = Len(b)
       /\ \E i \in 1..Len(a) :
            /\ a[i] < b[i]
            /\ \A j \in (i + 1)..Len(a) : a[j] = b[j]

\* round to nearest float, ties to even
RoundToFloat(a) ==
    IF Len(a) <= Precision THEN a
    ELSE LET sh     == Len(a) - Precision
             kept   == SubSeq(a, sh + 1, Len(a))
             guard  == a[sh]
             sticky == \E i \in 1..(sh - 1) : a[i] = 1
             up     == guard = 1 /\ (sticky \/ kept[1] = 1)
         IN  Zeros(sh) \o (IF up THEN ExactAdd(kept, <<1>>) ELSE kept)

\* line 145: elapsed += poll_interval
FloatAdd(a, b) == RoundToFloat(ExactAdd(a, b))

RECURSIVE NatBits(_)
NatBits(n) == IF n = 0 THEN <<>> ELSE <<n % 2>> \o NatBits(n \div 2)

\* quotient and remainder of (r * 2^Len(a) + a) by the positive integer d,
\* r < d: long division, the high half of the bits first
RECURSIVE DivRem(_, _, _)
DivRem(a, d, r) ==
    IF a = <<>> THEN [q |-> <<>>, r |-> r]
    ELSE IF Len(a) = 1
    THEN [q |-> <<(2 * r + a[1]) \div d>>, r |-> (2 * r + a[1]) % d]
    ELSE LET mid == Len(a) \div 2
             hi  == DivRem(SubSeq(a, mid + 1, Len(a)), d, r)
         IN  IF hi.r < d
             THEN LET lo == DivRem(SubSeq(a, 1, mid), d, hi.r)
                  IN  [q |-> lo.q \o hi.q, r |-> lo.r]
             ELSE [q |-> <<>>, r |-> 0]

\* float("num/den") for a decimal num/den >= 1/32: the quotient in units,
\* with the bits lost below the unit kept as a sticky last bit, correctly
\* rounded
FloatOfRatio(num, den) ==
    LET dr   == DivRem(Zeros(60) \o NatBits(num), den, 0)
        quot == Norm(dr.q)
    IN  IF dr.r = 0 THEN RoundToFloat(quot)
        ELSE RoundToFloat(<<1>> \o Tail(quot))

\* a whole number of seconds
Seconds(secs) == FloatOfRatio(secs, 1)

\* a float argument: sign and magnitude
Pos(m) == [neg |-> FALSE, mag |-> m]
Neg(m) == [neg |-> TRUE, mag |-> m]

IsPositive(d) == ~d.neg /\ d.mag # Zero

\* elapsed < max_wait_time, elapsed a non-negative float
ElapsedBelow(e, d) == ~d.neg /\ Less(e, d.mag)

\* a <= b on signed durations
Leq(a, b) ==
    IF a.neg /\ ~b.neg THEN TRUE
    ELSE IF ~a.neg /\ b.neg THEN a.mag = Zero /\ b.mag = Zero
    ELSE IF a.neg THEN ~Less(a.mag, b.mag)
    ELSE ~Less(b.mag, a.mag)

\* ------------------------------------------------------------------------
\* Payload values and json.loads
\* ------------------------------------------------------------------------
\* Python values a result payload can hold: a str, or a structured value
\* (a number or a list of values).
Str(s) == [kind |-> "str", num |-> 0, items |-> <<>>, chars |-> s]
Num(n) == [kind |-> "num", num |-> n, items |-> <<>>, chars |-> <<>>]
Arr(xs) == [kind |-> "arr", num |-> 0, items |-> xs, chars |-> <<>>]

Chars == {"[", "]", "1", ","}

ParseFail == [ok |-> FALSE, val |-> Num(0), rest |-> <<>>]

\* the leading run of digits of s
RECURSIVE DigitRun(_)
DigitRun(s) ==
    IF s # <<>> /\ Head(s) = "1" THEN 1 + DigitRun(Tail(s)) ELSE 0

RECURSIVE Repunit(_)
Repunit(n) == IF n = 0 THEN 0 ELSE 10 * Repunit(n - 1) + 1

\* JSON text over Chars: value ::= 1+ | "[" "]" | "[" value ("," value)* "]"
RECURSIVE ParseValue(_), ParseElems(_, _)
ParseValue(s) ==
    IF s = <<>> THEN ParseFail
    ELSE IF Head(s) = "1"
    THEN LET n == DigitRun(s)
         IN  [ok |-> TRUE, val |-> Num(Repunit(n)), rest |-> SubSeq(s, n + 1, Len(s))]
    ELSE IF Head(s) = "["
    THEN IF Tail(s) # <<>> /\ Head(Tail(s)) = "]"
         THEN [ok |-> TRUE, val |-> Arr(<<>>), rest |-> Tail(Tail(s))]
         ELSE ParseElems(Tail(s), <<>>)
    ELSE ParseFail

\* s starts at an element of an array whose earlier elements are acc
ParseElems(s, acc) ==
    LET r == ParseValue(s)
    IN  IF ~r.ok \/ r.rest = <<>> THEN ParseFail
        ELSE IF Head(r.rest) = ","
        THEN ParseElems(Tail(r.rest), Append(acc, r.val))
        ELSE IF Head(r.rest) = "]"
        THEN [ok |-> TRUE, val |-> Arr(Append(acc, r.val)), rest |-> Tail(r.rest)]
        ELSE ParseFail

\* json.loads(s): ok = FALSE stands for the JSONDecodeError it raises
JsonLoads(s) ==
    LET r == ParseValue(s)
    IN  IF r.ok /\ r.rest = <<>> THEN [ok |-> TRUE, val |-> r.val]
        ELSE [ok |-> FALSE, val |-> Num(0)]

\* lines 113-117: the content attribute when the output has one, else the
\* output itself
ExtractOutput(out) == out.value

\* DecodePayload without the except clause: a parse failure escapes
DecodeNoFallback(data) ==
    IF data.kind = "str"
    THEN LET r == JsonLoads(data.chars)
         IN  [raised |-> ~r.ok, val |-> IF r.ok THEN r.val ELSE data]
    ELSE [raised |-> FALSE, val |-> data]

\* lines 120-125: parse a str payload, keep it on any parse failure
\* raised = TRUE would be an exception leaving the inner try (none does:
\* the bare except at line 124 swallows every one)
DecodePayload(data) ==
    IF data.kind = "str"
    THEN LET r == JsonLoads(data.chars)
         IN  [raised |-> FALSE, val |-> IF r.ok THEN r.val ELSE data]
    ELSE [raised |-> FALSE, val |-> data]

RECURSIVE StringsUpTo(_)
StringsUpTo(n) ==
    IF n = 0 THEN {<<>>}
    ELSE LET shorter == StringsUpTo(n - 1)
         IN  shorter \cup {Append(s, c) : s \in shorter, c \in Chars}

\* payloads the service can return: every short string, some longer ones,
\* and already-structured values
PayloadValues ==
    {Str(s) : s \in StringsUpTo(MaxStrLen)}
    \cup {Str(<<"[", "1", ",", "1", "]">>), Str(<<"[", "[", "1", "]", "]">>),
          Str(<<"[", "1", ",", "]">>), Str(<<"[", "1", "1">>),
          Str(<<"[", "]", "]">>)}
    \cup {Num(1), Arr(<<>>), Arr(<<Num(1), Arr(<<Num(11)>>)>>)}

ResultOutputs == [hasContent : BOOLEAN, value : PayloadValues]

\* ------------------------------------------------------------------------
\* Inputs
\* ------------------------------------------------------------------------
\* --timeout and --poll-interval (argparse type=float, lines 245-257)
Tenth == FloatOfRatio(1, 10)
Budgets == {Neg(Seconds(1)), Pos(Zero), Pos(Seconds(1)),
            Pos(FloatOfRatio(18, 10)), Pos(Seconds(10))}
Intervals == {Neg(Seconds(1)), Pos(Zero), Pos(Tenth), Pos(FloatOfRatio(3, 10)),
              Pos(Seconds(2)), Pos(Seconds(3))}

KnownStatuses == {"queued", "running", "completed", "failed", "cancelled",
                  "cancelling"}
Statuses == KnownStatuses \cup {"weird-state"}

\* the error attribute of a status object: missing, None, the empty string,
\* or a message
ErrorDetails == {"absent", "None", "", "quota exceeded"}

\* exceptions the client raises
ClientErrors == {"AuthError", "TransportError"}
ResultErrors == ClientErrors \cup {"NotReadyError"}

RunIds == {"run_a", "run_b"}

NoValue == [run_id |-> "none", status |-> "none", output |-> Num(0)]
NoOutput == [hasContent |-> FALSE, value |-> Num(0)]

\* ------------------------------------------------------------------------
\* State
\* ------------------------------------------------------------------------
VARIABLES
    pc,          \* "import", "create", "loop", "result", "sleep", "present", "exit"
    keyPresent,  \* PARALLEL_API_KEY is set in the environment
    budget,      \* max_wait_time
    interval,    \* poll_interval
    runId,       \* run_id, "none" before the task is created
    elapsed,     \* elapsed
    lastStatus,  \* status.status of the latest retrieve, "none" before
    lastCall,    \* the latest external call made
    submits,     \* calls of client.task_run.create
    polls,       \* calls of client.task_run.retrieve
    fetches,     \* calls of client.task_run.result
    sleeps,      \* calls of time.sleep that returned
    seen,        \* statuses retrieve has returned so far
    outcome,     \* how the loop classified the task, "none" before
    reason,      \* the error printed for a failed task
    raised,      \* the exception that ended the call, "none" if none
    returned,    \* the dict run_search returned to main, NoValue if none
    exitCode,    \* process exit status, -1 while running
    polledId,    \* the run id of the latest retrieve call
    fetchedId,   \* the run id of the result call
    payload,     \* the output of the result object, NoOutput before
    interrupted, \* a KeyboardInterrupt has been delivered to the process
    errorDetail  \* the error of the status that reported failed, "none" before

vars == <<pc, keyPresent, budget, interval, runId, elapsed, lastStatus,
          lastCall, submits, polls, fetches, sleeps, seen, outcome, reason,
          raised, returned, exitCode, polledId, fetchedId, payload,
          interrupted, errorDetail>>

Init ==
    /\ pc = "import"
    /\ keyPresent \in BOOLEAN
    /\ budget \in Budgets
    /\ interval \in Intervals
    /\ runId = "none"
    /\ elapsed = Zero
    /\ lastStatus = "none"
    /\ lastCall = "none"
    /\ submits = 0
    /\ polls = 0
    /\ fetches = 0
    /\ sleeps = 0
    /\ seen = {}
    /\ outcome = "none"
    /\ reason = "none"
    /\ raised = "none"
    /\ returned = NoValue
    /\ exitCode = -1
    /\ polledId = "none"
    /\ fetchedId = "none"
    /\ payload = NoOutput
    /\ interrupted = FALSE
    /\ errorDetail = "none"

\* ------------------------------------------------------------------------
\* Steps of run_search
\* ------------------------------------------------------------------------
\* lines 151-155: except Exception: print, sys.exit(1)
Abort(e) ==
    /\ pc' = "exit"
    /\ raised' = e
    /\ exitCode' = 1

\* Classify fetching the result of a failed task too
ClassifyFetchOnFailed(s) ==
    IF s \in {"completed", "failed"} THEN "completed"
    ELSE IF s \in {"cancelled", "cancelling"} THEN "cancelled"
    ELSE "continue"

\* Classify waiting for cancelling to become cancelled
ClassifyCancellingContinues(s) ==
    IF s = "completed" THEN "completed"
    ELSE IF s = "failed" THEN "failed"
    ELSE IF s = "cancelled" THEN "cancelled"
    ELSE "continue"

\* lines 106, 133, 138, 142: the branch the loop takes on a status
Classify(s) ==
    IF s = "completed" THEN "completed"
    ELSE IF s = "failed" THEN "failed"
    ELSE IF s \in {"cancelled", "cancelling"} THEN "cancelled"
    ELSE "continue"

\* line 134: getattr(status, 'error', 'Unknown error')
FailureReason(detail) == IF detail = "absent" THEN "Unknown error" ELSE detail

\* line 103: while elapsed < max_wait_time
LoopCondition == ElapsedBelow(elapsed, budget)

\* lines 11-16: module load; a missing key raises ValueError
Import ==
    /\ UNCHANGED <<interrupted, errorDetail>>
    /\ pc = "import"
    /\ IF keyPresent
       THEN /\ pc' = "create"
            /\ UNCHANGED <<raised, exitCode>>
       ELSE Abort("ValueError")
    /\ UNCHANGED <<keyPresent, budget, interval, runId, elapsed, lastStatus,
                   lastCall, submits, polls, fetches, sleeps, seen, outcome,
                   reason, returned, polledId, fetchedId, payload>>

\* lines 48-102: create returns a run
CreateOk ==
    /\ UNCHANGED <<interrupted, errorDetail>>
    /\ pc = "create"
    /\ \E id \in RunIds : runId' = id
    /\ submits' = submits + 1
    /\ lastCall' = "create"
    /\ elapsed' = Zero
    /\ pc' = "loop"
    /\ UNCHANGED <<keyPresent, budget, interval, lastStatus, polls, fetches,
                   sleeps, seen, outcome, reason, raised, returned, exitCode,
                   polledId, fetchedId, payload>>

\* lines 48, 151-155: create raises
CreateRaises ==
    /\ UNCHANGED <<interrupted, errorDetail>>
    /\ pc = "create"
    /\ submits' = submits + 1
    /\ lastCall' = "create"
    /\ \E e \in ClientErrors : Abort(e)
    /\ UNCHANGED <<keyPresent, budget, interval, runId, elapsed, lastStatus,
                   polls, fetches, sleeps, seen, outcome, reason, returned,
                   polledId, fetchedId, payload>>

\* lines 103-143: the loop test passes and retrieve returns a status
PollOk ==
    /\ UNCHANGED interrupted
    /\ pc = "loop"
    /\ LoopCondition
    /\ polls < MaxPolls
    /\ polls' = polls + 1
    /\ lastCall' = "retrieve"
    /\ polledId' = runId
    /\ \E s \in Statuses, detail \in ErrorDetails :
         /\ lastStatus' = s
         /\ seen' = seen \cup {s}
         /\ CASE Classify(s) = "completed" ->
                   /\ pc' = "result"
                   /\ UNCHANGED <<outcome, reason, exitCode, errorDetail>>
              [] Classify(s) = "failed" ->
                   /\ outcome' = "Failed"
                   /\ errorDetail' = detail
                   /\ reason' = FailureReason(detail)
                   /\ pc' = "exit"
                   /\ exitCode' = 1
              [] Classify(s) = "cancelled" ->
                   /\ outcome' = "Cancelled"
                   /\ pc' = "exit"
                   /\ exitCode' = 1
                   /\ UNCHANGED <<reason, errorDetail>>
              [] OTHER ->
                   /\ pc' = "sleep"
                   /\ UNCHANGED <<outcome, reason, exitCode, errorDetail>>
    /\ UNCHANGED <<keyPresent, budget, interval, runId, elapsed, submits,
                   fetches, sleeps, raised, returned, fetchedId, payload>>

\* PollRaises swallowing the exception and polling again after a sleep
PollRaisesRetry ==
    /\ UNCHANGED <<interrupted, errorDetail>>
    /\ pc = "loop"
    /\ LoopCondition
    /\ polls < MaxPolls
    /\ polls' = polls + 1
    /\ lastCall' = "retrieve"
    /\ polledId' = runId
    /\ \E e \in ClientErrors : raised' = e
    /\ pc' = "sleep"
    /\ UNCHANGED <<keyPresent, budget, interval, runId, elapsed, lastStatus,
                   submits, fetches, sleeps, seen, outcome, reason, returned,
                   fetchedId, payload, exitCode>>

\* lines 104, 151-155: retrieve raises
PollRaises ==
    /\ UNCHANGED <<interrupted, errorDetail>>
    /\ pc = "loop"
    /\ LoopCondition
    /\ polls < MaxPolls
    /\ polls' = polls + 1
    /\ lastCall' = "retrieve"
    /\ polledId' = runId
    /\ \E e \in ClientErrors : Abort(e)
    /\ UNCHANGED <<keyPresent, budget, interval, runId, elapsed, lastStatus,
                   submits, fetches, sleeps, seen, outcome, reason, returned,
                   fetchedId, payload>>

\* Timeout handing the last status seen back to the caller
TimeoutReturnsStatus ==
    /\ UNCHANGED <<interrupted, errorDetail>>
    /\ pc = "loop"
    /\ ~LoopCondition
    /\ returned' = [run_id |-> runId, status |-> lastStatus, output |-> Num(0)]
    /\ pc' = "present"
    /\ UNCHANGED <<keyPresent, budget, interval, runId, elapsed, lastStatus,
                   lastCall, submits, polls, fetches, sleeps, seen, reason,
                   raised, outcome, exitCode, polledId, fetchedId, payload>>

\* lines 103, 147-149: the loop test fails
Timeout ==
    /\ UNCHANGED <<interrupted, errorDetail>>
    /\ pc = "loop"
    /\ ~LoopCondition
    /\ outcome' = "TimedOut"
    /\ pc' = "exit"
    /\ exitCode' = 1
    /\ UNCHANGED <<keyPresent, budget, interval, runId, elapsed, lastStatus,
                   lastCall, submits, polls, fetches, sleeps, seen, reason,
                   raised, returned, polledId, fetchedId, payload>>

\* lines 110-131: result returns, the payload is decoded, the dict is returned
ResultOk ==
    /\ UNCHANGED <<interrupted, errorDetail>>
    /\ pc = "result"
    /\ fetches' = fetches + 1
    /\ lastCall' = "result"
    /\ fetchedId' = runId
    /\ \E out \in ResultOutputs :
         LET d == DecodePayload(ExtractOutput(out))
         IN  /\ payload' = out
             /\ IF d.raised
                THEN /\ Abort("DecodeError")
                     /\ UNCHANGED <<outcome, returned>>
                ELSE /\ outcome' = "Success"
                     /\ returned' = [run_id |-> runId, status |-> lastStatus,
                                     output |-> d.val]
                     /\ pc' = "present"
                     /\ UNCHANGED <<raised, exitCode>>
    /\ UNCHANGED <<keyPresent, budget, interval, runId, elapsed, lastStatus,
                   submits, polls, sleeps, seen, reason, polledId>>

\* lines 110, 151-155: result raises
ResultRaises ==
    /\ UNCHANGED <<interrupted, errorDetail>>
    /\ pc = "result"
    /\ fetches' = fetches + 1
    /\ lastCall' = "result"
    /\ fetchedId' = runId
    /\ \E e \in ResultErrors : Abort(e)
    /\ UNCHANGED <<keyPresent, budget, interval, runId, elapsed, lastStatus,
                   submits, polls, sleeps, seen, outcome, reason, returned,
                   polledId, payload>>

\* lines 143-145: sleep, then elapsed += poll_interval; time.sleep raises
\* ValueError on a negative length
Sleep ==
    /\ UNCHANGED <<interrupted, errorDetail>>
    /\ pc = "sleep"
    /\ lastCall' = "sleep"
    /\ IF interval.neg
       THEN /\ Abort("ValueError")
            /\ UNCHANGED <<sleeps, elapsed>>
       ELSE /\ sleeps' = sleeps + 1
            /\ elapsed' = FloatAdd(elapsed, interval.mag)
            /\ pc' = "loop"
            /\ UNCHANGED <<raised, exitCode>>
    /\ UNCHANGED <<keyPresent, budget, interval, runId, lastStatus, submits,
                   polls, fetches, seen, outcome, reason, returned, polledId,
                   fetchedId, payload>>

\* The str payloads: the values json.loads is called on (line 120)
StrOutputs == {out \in ResultOutputs : ExtractOutput(out).kind = "str"}

\* Interrupt caught inside the loop, which goes on to its next iteration
InterruptCaught ==
    /\ UNCHANGED errorDetail
    /\ pc \in {"loop", "result", "sleep"}
    /\ interrupted' = TRUE
    /\ pc' = "loop"
    /\ UNCHANGED <<keyPresent, budget, interval, runId, elapsed, lastStatus,
                   lastCall, submits, polls, fetches, sleeps, seen, outcome,
                   reason, raised, returned, exitCode, polledId, fetchedId,
                   payload>>

\* lines 103-155: a KeyboardInterrupt is delivered while the loop is in
\* retrieve, in result or in time.sleep. It is not an Exception, so the
\* handler of line 151 does not catch it: it leaves run_search and main, and
\* the interpreter ends the process with status 1 or, killing itself with
\* SIGINT, 130, depending on its version.
Interrupt ==
    /\ UNCHANGED errorDetail
    /\ pc \in {"loop", "result", "sleep"}
    /\ interrupted' = TRUE
    /\ pc' = "exit"
    /\ raised' = "KeyboardInterrupt"
    /\ exitCode' \in {1, 130}
    /\ UNCHANGED <<keyPresent, budget, interval, runId, elapsed, lastStatus,
                   lastCall, submits, polls, fetches, sleeps, seen, outcome,
                   reason, returned, polledId, fetchedId, payload>>

\* lines 110-131: result returns a str payload and the KeyboardInterrupt is
\* delivered inside the try of lines 121-125 (the import or json.loads): the
\* bare except swallows it, output_data stays the str and the dict is
\* returned
InterruptInDecode ==
    /\ UNCHANGED errorDetail
    /\ pc = "result"
    /\ fetches' = fetches + 1
    /\ lastCall' = "result"
    /\ fetchedId' = runId
    /\ interrupted' = TRUE
    /\ \E out \in StrOutputs :
         /\ payload' = out
         /\ outcome' = "Success"
         /\ returned' = [run_id |-> runId, status |-> lastStatus,
                         output |-> ExtractOutput(out)]
         /\ pc' = "present"
    /\ UNCHANGED <<keyPresent, budget, interval, runId, elapsed, lastStatus,
                   submits, polls, sleeps, seen, reason, raised, exitCode,
                   polledId>>

\* lines 268-277: run_search returned to main, which prints the result
Present ==
    /\ UNCHANGED <<interrupted, errorDetail>>
    /\ pc = "present"
    /\ pc' = "exit"
    /\ exitCode' = 0
    /\ UNCHANGED <<keyPresent, budget, interval, runId, elapsed, lastStatus,
                   lastCall, submits, polls, fetches, sleeps, seen, outcome,
                   reason, raised, returned, polledId, fetchedId, payload>>

Next ==
    \/ Import
    \/ CreateOk
    \/ CreateRaises
    \/ PollOk
    \/ PollRaises
    \/ Timeout
    \/ ResultOk
    \/ ResultRaises
    \/ Sleep
    \/ Present
    \/ Interrupt
    \/ InterruptInDecode

Spec == Init /\ [][Next]_vars

TypeOK ==
    /\ pc \in {"import", "create", "loop", "result", "sleep", "present", "exit"}
    /\ outcome \in {"none", "Success", "Failed", "Cancelled", "TimedOut"}
    /\ polls \in 0..MaxPolls
    /\ lastStatus \in Statuses \cup {"none"}

\* ------------------------------------------------------------------------
\* Properties
\* ------------------------------------------------------------------------
Outcomes == {"Success", "Failed", "Cancelled", "TimedOut"}

\* the call ran to its end without an exception from the client, the sleep
\* or the module load
EndedNormally ==
    pc \in {"present", "exit"} /\ raised = "none" /\ submits = 1

\* budget <= 0, pollInterval <= 0 or pollInterval > budget
InvalidConfig ==
    \/ ~IsPositive(budget)
    \/ ~IsPositive(interval)
    \/ ~Leq(interval, budget)

\* C1: every invocation that ends without a client exception has exactly
\* one outcome among Success, Failed, Cancelled and TimedOut, set once and
\* only when the loop ends, and a value handed back to the caller never
\* carries a non-terminal status (queued/running).
C1_ExactlyOneOutcome ==
    /\ [](/\ EndedNormally => outcome \in Outcomes
          /\ pc \notin {"present", "exit"} =>
                outcome = "none" /\ returned = NoValue
          /\ returned # NoValue =>
                outcome = "Success" /\ returned.status \notin {"queued", "running"})
    /\ [][outcome # "none" => outcome' = outcome]_vars

C1_Witness ==
    /\ pc = "present"
    /\ outcome = "Success"
    /\ returned.status = "completed"
    /\ {"queued", "running"} \subseteq seen

\* C2: a Failed, Cancelled or TimedOut outcome is returned to the caller as
\* a value: the caller has it and the process was not exited with status 1
\* (stated for valid configurations, where the loop has polled).
C2_TerminalOutcomesReturned ==
    (outcome \in {"Failed", "Cancelled", "TimedOut"} /\ ~InvalidConfig)
    => (returned # NoValue /\ exitCode # 1)

\* C3: a status outside the known enumeration ends the loop at that poll
\* with a ProtocolError: no sleep and no further poll follow it (stated for
\* valid configurations).
C3_UnknownStatusFailsFast ==
    (lastStatus \notin (KnownStatuses \cup {"none"}) /\ ~InvalidConfig)
    => (pc = "exit" /\ raised = "ProtocolError")

\* C4: result is called at most once, only as the call right after a
\* retrieve of the same run id that returned completed.
C4_FetchOnlyAfterCompleted ==
    [][fetches' # fetches =>
         /\ fetches = 0
         /\ fetches' = 1
         /\ lastCall = "retrieve"
         /\ lastStatus = "completed"
         /\ raised = "none"
         /\ fetchedId' = polledId]_vars

C4_Witness ==
    /\ fetches = 1
    /\ lastStatus = "completed"
    /\ fetchedId = polledId
    /\ fetchedId \in RunIds
    /\ sleeps >= 1

\* n * a, exactly, n a natural number
RECURSIVE ExactTimes(_, _)
ExactTimes(n, a) ==
    IF n = 0 \/ a = Zero THEN Zero
    ELSE LET half    == ExactTimes(n \div 2, a)
             doubled == IF half = Zero THEN Zero ELSE <<0>> \o half
         IN  IF n % 2 = 1 THEN ExactAdd(doubled, a) ELSE doubled

\* n = ceil(b / i) for real numbers b > 0 and i > 0
IsCeilOfQuotient(n, b, i) ==
    /\ n >= 1
    /\ Less(ExactTimes(n - 1, i), b)
    /\ ~Less(ExactTimes(n, i), b)

\* C5: when every poll reported running, and budget > 0 and pollInterval > 0,
\* the loop ends in TimedOut with elapsed >= budget after exactly
\* ceil(budget / pollInterval) polls.
C5_AlwaysRunningPollsCeil ==
    (/\ EndedNormally
     /\ seen \subseteq {"running"}
     /\ IsPositive(budget)
     /\ IsPositive(interval))
    => /\ outcome = "TimedOut"
       /\ ~Less(elapsed, budget.mag)
       /\ IsCeilOfQuotient(polls, budget.mag, interval.mag)

\* k * poll_interval as a float: the exact product, rounded once
FloatTimes(k, a) == RoundToFloat(ExactTimes(k, a))

\* C6: k non-terminal statuses followed by completed, with
\* k * pollInterval < budget, give Success after k + 1 polls, k sleeps,
\* elapsed = k * pollInterval and one result call; so a loop that gave up
\* after k non-terminal statuses had k * pollInterval >= budget.
C6_SuccessAfterKSleeps ==
    /\ (outcome = "Success" /\ seen \subseteq {"queued", "running", "completed"})
       => /\ sleeps = polls - 1
          /\ fetches = 1
          /\ elapsed = FloatTimes(polls - 1, interval.mag)
    /\ (outcome = "TimedOut" /\ seen \subseteq {"queued", "running"}
        /\ ~interval.neg)
       => ~ElapsedBelow(FloatTimes(polls, interval.mag), budget)

\* C7: with an invalid configuration no create, retrieve or result call is
\* ever made.
C7_InvalidConfigNeverSubmits ==
    InvalidConfig => (submits = 0 /\ polls = 0 /\ fetches = 0)

\* a step taken after a client error makes no client call and no sleep
NoCallAfterClientError ==
    raised \in ClientErrors => UNCHANGED <<submits, polls, fetches, sleeps>>

\* C8: once create or retrieve has raised an authentication or transport
\* error the process is exiting with status 1, no outcome or value has been
\* produced, and no further client call is made.
C8_ClientFailureAborts ==
    /\ []((raised \in ClientErrors /\ lastCall \in {"create", "retrieve"})
          => /\ pc = "exit"
             /\ exitCode = 1
             /\ outcome = "none"
             /\ returned = NoValue)
    /\ [][NoCallAfterClientError]_vars

C8_Witness ==
    /\ raised = "TransportError"
    /\ lastCall = "retrieve"
    /\ polls >= 2
    /\ pc = "exit"

\* C9: a poll returning cancelling, like one returning cancelled, ends the
\* loop at that poll with the outcome Cancelled: that poll is the last call
\* made, and result is never called.
C9_CancellingIsCancelled ==
    lastStatus \in {"cancelled", "cancelling"}
    => /\ outcome = "Cancelled"
       /\ pc = "exit"
       /\ lastCall = "retrieve"
       /\ fetches = 0

C9_Witness ==
    /\ lastStatus = "cancelling"
    /\ outcome = "Cancelled"
    /\ sleeps >= 1

\* JSON text of a structured value
RECURSIVE Digits(_)
Digits(n) == IF n = 0 THEN <<>> ELSE Digits(n \div 10) \o <<"1">>

RECURSIVE JsonDumps(_), JoinItems(_)
JsonDumps(v) ==
    IF v.kind = "num" THEN Digits(v.num)
    ELSE <<"[">> \o JoinItems(v.items) \o <<"]">>

JoinItems(xs) ==
    IF xs = <<>> THEN <<>>
    ELSE IF Len(xs) = 1 THEN JsonDumps(xs[1])
    ELSE JsonDumps(xs[1]) \o <<",">> \o JoinItems(Tail(xs))

\* structured values nested at most depth deep, arrays of at most 2 items
RECURSIVE JsonValues(_)
JsonValues(depth) ==
    LET atoms == {Num(1), Num(11), Num(111), Arr(<<>>)}
    IN  IF depth = 0 THEN atoms
        ELSE LET inner == JsonValues(depth - 1)
             IN  atoms \cup {Arr(<<x>>) : x \in inner}
                       \cup {Arr(<<x, y>>) : x \in inner, y \in inner}

\* the JSON texts of those values
JsonTexts == {JsonDumps(v) : v \in JsonValues(2)}

\* C10: once result has returned, the call succeeds whatever the payload:
\* a str payload that is a JSON text yields the value it denotes, any other
\* str payload and any non-str payload is the output unchanged (stated for
\* calls no interrupt was delivered to).
C10_DecodeNeverRaises ==
    (lastCall = "result" /\ raised \notin ResultErrors /\ ~interrupted)
    => /\ raised = "none"
       /\ outcome = "Success"
       /\ LET data == payload.value
              out  == returned.output
          IN  IF data.kind = "str" /\ data.chars \in JsonTexts
              THEN out.kind # "str" /\ JsonDumps(out) = data.chars
              ELSE out = data

C10_Witness ==
    /\ outcome = "Success"
    /\ payload.value = Str(<<"[", "1", ",", "1", "]">>)
    /\ returned.output = Arr(<<Num(1), Num(1)>>)

\* a step taken after the interrupt makes no client call, no sleep, and no
\* call of any other kind (a cancel request would be one)
NoCallAfterInterrupt ==
    interrupted => UNCHANGED <<submits, polls, fetches, sleeps, lastCall>>

\* C11: an interrupt delivered while the loop is running stops the loop:
\* the loop is left at once, no retrieve or result call follows it, and
\* the only calls ever made to the service are create, retrieve and result
\* (no cancel request).
C11_InterruptStopsLoop ==
    /\ [](interrupted => pc \in {"present", "exit"})
    /\ [](lastCall \in {"none", "create", "retrieve", "result", "sleep"})
    /\ [][NoCallAfterInterrupt]_vars

C11_Witness ==
    /\ interrupted
    /\ raised = "KeyboardInterrupt"
    /\ pc = "exit"
    /\ polls >= 2
    /\ lastStatus = "running"
    /\ fetches = 0

\* the error details that carry no detail: no attribute, None, empty
NoDetail == {"absent", "None", ""}

\* C12: the reason of a Failed outcome is the error detail of the failed
\* status when it has one, and the placeholder "Unknown error" when it has
\* none: no error attribute, or one that is None or empty.
C12_FailedReasonOrPlaceholder ==
    outcome = "Failed"
    => reason = (IF errorDetail \in NoDetail THEN "Unknown error"
                 ELSE errorDetail)

\* pollInterval > 0: the polls made so far are at most
\* ceil(budget / pollInterval), that is (polls - 1) * pollInterval < budget
\* (stated right after each poll, the only step that changes polls)
AtMostCeilPolls ==
    (IsPositive(interval) /\ polls >= 1 /\ lastCall = "retrieve")
    => /\ ~budget.neg
       /\ Less(ExactTimes(polls - 1, interval.mag), budget.mag)

\* pollInterval > 0: right after a poll, elapsed is the number of earlier
\* polls times pollInterval, and is below the budget
ElapsedIsProduct ==
    (IsPositive(interval) /\ polls >= 1 /\ lastCall = "retrieve")
    => /\ elapsed = FloatTimes(polls - 1, interval.mag)
       /\ ElapsedBelow(elapsed, budget)

\* e < budget + pollInterval, exactly, for budget >= 0 and pollInterval >= 0
BelowBudgetPlusInterval(e) == Less(e, ExactAdd(budget.mag, interval.mag))

\* pollInterval > 0 and budget >= 0: on timeout
\* budget <= elapsed < budget + pollInterval
TimeoutWindow ==
    (IsPositive(interval) /\ ~budget.neg /\ outcome = "TimedOut")
    => /\ ~ElapsedBelow(elapsed, budget)
       /\ BelowBudgetPlusInterval(elapsed)

\* pollInterval = 0 and budget > 0: elapsed never advances and the loop
\* never times out
ZeroIntervalNeverTimesOut ==
    (interval = Pos(Zero) /\ IsPositive(budget))
    => (elapsed = Zero /\ outcome # "TimedOut")

\* C13: for every budget >= 0 and every pollInterval > 0 the loop ends after
\* at most ceil(budget / pollInterval) polls whatever statuses are reported;
\* at every poll elapsed = (earlier polls) * pollInterval < budget; on
\* timeout budget <= elapsed < budget + pollInterval; with pollInterval = 0
\* elapsed stays 0 and the loop never times out.
C13_TerminatesWithinCeilPolls ==
    /\ AtMostCeilPolls
    /\ ElapsedIsProduct
    /\ TimeoutWindow
    /\ ZeroIntervalNeverTimesOut

====
